---- MODULE Spec2Model ----
(***************************************************************************)
(* Model of package currency (src/currency.go): a decimal currency value   *)
(* stored as atto units (1e-18) in a math/big Int, its decimal-string      *)
(* parser and its precision-bounded renderer.                              *)
(*                                                                         *)
(* Text is a sequence of one-character strings.  A big.Int is a record     *)
(* [neg, abs] as in math/big: a sign flag and a magnitude, here a sequence *)
(* of decimal digits, most significant first, without leading zeros (the   *)
(* empty sequence is zero, and zero is never negative).                    *)
(***************************************************************************)
EXTENDS Integers, Sequences, FiniteSets

\* ------------------------------------------------------------------------
\* Characters
\* ------------------------------------------------------------------------
DigitChars == <<"0", "1", "2", "3", "4", "5", "6", "7", "8", "9">>

Digits == {DigitChars[i] : i \in 1..10}

DigitVal(c) == CHOOSE d \in 0..9 : DigitChars[d + 1] = c

DigitChar(d) == DigitChars[d + 1]

Front(a) == IF a = <<>> THEN <<>> ELSE SubSeq(a, 1, Len(a) - 1)

\* ------------------------------------------------------------------------
\* math/big natural numbers (magnitudes), as used through big.Int: a
\* sequence of words, most significant first, in base 10^4, without
\* leading zero words
\* ------------------------------------------------------------------------
Base == 10 * 10 * 10 * 10

Max(m, n) == IF m >= n THEN m ELSE n

natNorm(a) ==
    IF \A i \in 1..Len(a) : a[i] = 0 THEN <<>>
    ELSE SubSeq(a, CHOOSE i \in 1..Len(a) :
                       a[i] # 0 /\ \A j \in 1..(i - 1) : a[j] = 0,
                Len(a))

\* the i-th word of a counted from the least significant, 0 beyond its length
Word(a, i) == IF i <= Len(a) THEN a[Len(a) + 1 - i] ELSE 0

natCmp(a, b) ==
    IF Len(a) < Len(b) THEN -1
    ELSE IF Len(a) > Len(b) THEN 1
    ELSE IF a = b THEN 0
    ELSE LET i == CHOOSE k \in 1..Len(a) :
                     a[k] # b[k] /\ \A j \in 1..(k - 1) : a[j] = b[j]
         IN  IF a[i] < b[i] THEN -1 ELSE 1

\* a + b: word i is the sum of the operands' words and the carry, which
\* comes from the nearest lower word whose sum is not Base - 1
natAdd(a, b) ==
    LET n == Max(Len(a), Len(b))
        S(i) == Word(a, i) + Word(b, i)
        Carry(i) == \E j \in 1..(i - 1) :
                        S(j) >= Base /\ \A k \in (j + 1)..(i - 1) : S(k) = Base - 1
    IN  natNorm([m \in 1..(n + 1) |->
                    LET i == n + 2 - m
                    IN  (S(i) + (IF Carry(i) THEN 1 ELSE 0)) % Base])

\* a - b for a >= b: the borrow comes from the nearest lower word where the
\* operands differ
natSub(a, b) ==
    LET D(i) == Word(a, i) - Word(b, i)
        Borrow(i) == \E j \in 1..(i - 1) :
                         D(j) < 0 /\ \A k \in (j + 1)..(i - 1) : D(k) = 0
    IN  natNorm([m \in 1..Len(a) |->
                    LET i == Len(a) + 1 - m
                    IN  (D(i) - (IF Borrow(i) THEN 1 ELSE 0) + Base) % Base])

\* a * w for one word w: the low words of the products plus their high
\* words one place up
natMulWord(a, w) ==
    natAdd(natNorm([i \in 1..Len(a) |-> (a[i] * w) % Base]),
           natNorm([i \in 1..(Len(a) + 1) |->
                       IF i <= Len(a) THEN (a[i] * w) \div Base ELSE 0]))

\* hi * Base + lo
natShiftAdd(hi, lo) == IF hi = <<>> THEN lo ELSE natAdd(Append(hi, 0), lo)

RECURSIVE natMul(_, _)
natMul(a, b) ==
    IF a = <<>> \/ b = <<>> THEN <<>>
    ELSE natShiftAdd(natMul(a, Front(b)), natMulWord(a, b[Len(b)]))

\* the decimal digits of a, most significant first (none for zero)
natDigits(a) ==
    natNorm([i \in 1..(4 * Len(a)) |->
                LET w == a[((i - 1) \div 4) + 1]
                    k == (i - 1) % 4
                IN  IF k = 0 THEN w \div 1000
                    ELSE IF k = 1 THEN (w \div 100) % 10
                    ELSE IF k = 2 THEN (w \div 10) % 10
                    ELSE w % 10])

\* the magnitude written by the decimal digits ds
natFromPadded(d) ==
    natNorm([i \in 1..(Len(d) \div 4) |->
                LET j == 4 * (i - 1)
                IN  d[j + 1] * 1000 + d[j + 2] * 100 + d[j + 3] * 10 + d[j + 4]])

natFromDigits(ds) == natFromPadded([i \in 1..((4 - (Len(ds) % 4)) % 4) |-> 0] \o ds)

\* Long division by b # 0 over the decimal digits of the dividend, with
\* m the multiples 0 * b .. 9 * b of the divisor.  A result is <<q, r>>: as
\* many quotient digits as dividend digits, and the remainder.
natDivDigit(r1, m) ==
    LET d == CHOOSE k \in 0..9 :
                 /\ natCmp(m[k + 1], r1) <= 0
                 /\ k < 9 => natCmp(m[k + 2], r1) > 0
    IN  <<(<<d>>), natSub(r1, m[d + 1])>>

natDivCat(q1, res2) == <<q1 \o res2[1], res2[2]>>

\* the digits ds are divided with r0 the remainder carried in; the left
\* half is evaluated before the right half is entered
RECURSIVE natDivDigits(_, _, _)
natDivDigits(r0, ds, m) ==
    IF ds = <<>> THEN <<(<<>>), r0>>
    ELSE IF Len(ds) = 1
         THEN natDivDigit(natAdd(natMulWord(r0, 10), natNorm(ds)), m)
         ELSE LET h    == Len(ds) \div 2
                  res1 == natDivDigits(r0, SubSeq(ds, 1, h), m)
              IN  IF res1[2] = <<>>
                  THEN natDivCat(res1[1],
                                 natDivDigits(<<>>, SubSeq(ds, h + 1, Len(ds)), m))
                  ELSE natDivCat(res1[1],
                                 natDivDigits(res1[2], SubSeq(ds, h + 1, Len(ds)), m))

natDivOf(qr) == <<natFromDigits(qr[1]), qr[2]>>

natDiv(a, b) ==
    natDivOf(natDivDigits(<<>>, natDigits(a), [k \in 1..10 |-> natMulWord(b, k - 1)]))

\* ------------------------------------------------------------------------
\* math/big Int: the operations currency.go calls
\* ------------------------------------------------------------------------
mkInt(neg, abs) == [neg |-> neg /\ abs # <<>>, abs |-> abs]

BigZero == mkInt(FALSE, <<>>)

BigOne == mkInt(FALSE, <<1>>)

\* the Int written by the decimal digits ds, negated when neg
BigOf(neg, ds) == mkInt(neg, natFromDigits(ds))

IsBigZero(x) == x.abs = <<>>

BigNeg(x) == mkInt(~x.neg, x.abs)

\* z.Add(x, y)
BigAdd(x, y) ==
    IF x.neg = y.neg THEN mkInt(x.neg, natAdd(x.abs, y.abs))
    ELSE IF natCmp(x.abs, y.abs) >= 0
         THEN mkInt(x.neg, natSub(x.abs, y.abs))
         ELSE mkInt(y.neg, natSub(y.abs, x.abs))

\* z.Sub(x, y)
BigSub(x, y) == BigAdd(x, BigNeg(y))

\* z.Mul(x, y)
BigMul(x, y) == mkInt(x.neg # y.neg, natMul(x.abs, y.abs))

\* z.QuoRem(x, y, r) for y # 0: truncated division, <<quotient, remainder>>
BigQuoRemOf(x, y, qr) == <<mkInt(x.neg # y.neg, qr[1]), mkInt(x.neg, qr[2])>>

BigQuoRem(x, y) == BigQuoRemOf(x, y, natDiv(x.abs, y.abs))

\* z.Quo(x, y) for y # 0
BigQuo(x, y) == BigQuoRem(x, y)[1]

\* z.DivMod(x, y, m) for y # 0: Euclidean division, <<quotient, modulus>>
BigDivModOf(y, q, r) ==
    IF r.neg
    THEN IF y.neg
         THEN <<BigAdd(q, BigOne), BigAdd(r, mkInt(FALSE, y.abs))>>
         ELSE <<BigSub(q, BigOne), BigAdd(r, y)>>
    ELSE <<q, r>>

BigDivModFrom(y, qr) == BigDivModOf(y, qr[1], qr[2])

BigDivMod(x, y) == BigDivModFrom(y, BigQuoRem(x, y))

\* x.Cmp(y)
BigCmp(x, y) ==
    IF x.neg # y.neg THEN (IF x.neg THEN -1 ELSE 1)
    ELSE IF x.neg THEN 0 - natCmp(x.abs, y.abs) ELSE natCmp(x.abs, y.abs)

\* x.String(): base-10 text, "-" first when negative, "0" for zero
BigString(x) ==
    IF x.abs = <<>> THEN <<"0">>
    ELSE LET ds == natDigits(x.abs)
         IN  (IF x.neg THEN <<"-">> ELSE <<>>)
                 \o [i \in 1..Len(ds) |-> DigitChar(ds[i])]

AllDigits(s) == \A i \in 1..Len(s) : s[i] \in Digits

\* z.SetString(s, 10): an optional '+' or '-', then one or more digits and
\* nothing else.  [ok, val]; val is meaningful only when ok.
BigSetString(s) ==
    LET signed == s # <<>> /\ s[1] \in {"+", "-"}
        body   == IF signed THEN Tail(s) ELSE s
        ok     == body # <<>> /\ AllDigits(body)
    IN  [ok  |-> ok,
         val |-> IF ok
                 THEN mkInt(signed /\ s[1] = "-",
                            natFromDigits([i \in 1..Len(body) |-> DigitVal(body[i])]))
                 ELSE BigZero]

\* The digits SetString had consumed when it gave up: the sign and the
\* leading digits of s.
RECURSIVE DigitPrefix(_)
DigitPrefix(s) ==
    IF s = <<>> \/ Head(s) \notin Digits THEN <<>>
    ELSE <<Head(s)>> \o DigitPrefix(Tail(s))

\* After a failed SetString the value of z is undefined (math/big): the
\* receiver is left as it was, or holds what the scan stored before it gave
\* up.  The scan reads the sign, then stores the magnitude of the leading
\* digits in z.abs; with no digit there it fails at once and z keeps its
\* sign flag over a magnitude of zero (a negative zero, which Cmp orders
\* below zero and String prints as "0"); with a digit there it sets the
\* sign too and fails on the text that follows.
BigSetStringFailed(z, s) ==
    LET signed == s # <<>> /\ s[1] \in {"+", "-"}
        body   == DigitPrefix(IF signed THEN Tail(s) ELSE s)
    IN  {z,
         IF body = <<>>
         THEN [neg |-> z.neg, abs |-> <<>>]
         ELSE mkInt(signed /\ s[1] = "-",
                    natFromDigits([i \in 1..Len(body) |-> DigitVal(body[i])]))}

\* ------------------------------------------------------------------------
\* int64 arithmetic (wraps on overflow)
\* ------------------------------------------------------------------------
Two63 == natFromDigits(<<9,2,2,3,3,7,2,0,3,6,8,5,4,7,7,5,8,0,8>>)

Two64 == natFromDigits(<<1,8,4,4,6,7,4,4,0,7,3,7,0,9,5,5,1,6,1,6>>)

Wrap64(x) ==
    IF \/ (~x.neg /\ natCmp(x.abs, Two63) < 0)
       \/ (x.neg /\ natCmp(x.abs, Two63) <= 0)
    THEN x
    ELSE LET m == BigDivMod(BigAdd(x, mkInt(FALSE, Two63)), mkInt(FALSE, Two64))[2]
         IN  BigSub(m, mkInt(FALSE, Two63))

\* ------------------------------------------------------------------------
\* currency.go
\* ------------------------------------------------------------------------
eExp == 18

\* the loop of pow64: r, a are int64, b is the remaining exponent
RECURSIVE pow64Loop(_, _, _)
pow64Loop(r, a, b) ==
    IF b > 0
    THEN pow64Loop(IF b % 2 # 0 THEN Wrap64(BigMul(r, a)) ELSE r,
                   Wrap64(BigMul(a, a)),
                   b \div 2)
    ELSE r

pow64(a, b) == pow64Loop(BigOne, a, b)

Ten == mkInt(FALSE, <<10>>)

zeroes == [i \in 1..eExp |-> "0"]

iMult == pow64(Ten, eExp)

iBigMult == iMult

zero == BigZero

RECURSIVE zstripPre(_)
zstripPre(s) ==
    IF s = <<>> THEN <<>>
    ELSE IF Head(s) # "0" THEN s ELSE zstripPre(Tail(s))

RECURSIVE zstripPost(_)
zstripPost(s) ==
    IF s = <<>> THEN <<>>
    ELSE IF s[Len(s)] # "0" THEN s ELSE zstripPost(Front(s))

\* strings.Split(s, ".")
RECURSIVE Split(_)
Split(s) ==
    IF \A i \in 1..Len(s) : s[i] # "."
    THEN <<s>>
    ELSE LET i == CHOOSE k \in 1..Len(s) :
                     s[k] = "." /\ \A j \in 1..(k - 1) : s[j] # "."
         IN  <<SubSeq(s, 1, i - 1)>> \o Split(SubSeq(s, i + 1, Len(s)))

\* parseFraction without the truncation of a long fraction to eExp digits
parseFractionUntruncated(p1, s, post0) ==
    LET n     == Len(post0)
        post  == zstripPre(post0)
        fs    == BigSetString(post)
        f0    == IF Len(post) > 0 THEN fs.val ELSE BigZero
        exp   == eExp - n
        f     == IF exp > 0 THEN BigMul(f0, pow64(Ten, exp)) ELSE f0
    IN  IF Len(post) > 0 /\ ~fs.ok
        THEN {[err |-> "invalid fraction", p |-> p1]}
        ELSE {[err |-> "", p |-> BigAdd(BigMul(p1, iBigMult), f)]}

\* parse(p, s): the set of outcomes [err, p], p the receiver afterwards.
\* More than one outcome only where SetString fails on the receiver.
\* parseFraction is parse from "Truncate longer mantissae" on: p1 is the
\* receiver after the whole-unit segment, post0 the fraction after zstripPost.
parseFraction(p1, s, post0) ==
    LET post1 == IF Len(post0) > eExp THEN SubSeq(post0, 1, eExp) ELSE post0
        n     == Len(post1)
        post  == zstripPre(post1)
        fs    == BigSetString(post)
        f0    == IF Len(post) > 0 THEN fs.val ELSE BigZero
        exp   == eExp - n
        f     == IF exp > 0 THEN BigMul(f0, pow64(Ten, exp)) ELSE f0
    IN  IF Len(post) > 0 /\ ~fs.ok
        THEN {[err |-> "invalid fraction", p |-> p1]}
        ELSE {[err |-> "", p |-> BigAdd(BigMul(p1, iBigMult), f)]}

parse(p, s) ==
    LET v    == Split(s)
        pre  == IF Len(v) = 1 THEN zstripPre(s) ELSE zstripPre(v[1])
        post == IF Len(v) = 2 THEN zstripPost(v[2]) ELSE <<>>
        ps   == BigSetString(pre)
    IN  IF Len(v) > 2
        THEN {[err |-> "malformed decimal", p |-> p]}
        ELSE IF Len(pre) > 0
             THEN IF ~ps.ok
                  THEN {[err |-> "invalid decimal", p |-> z] :
                            z \in BigSetStringFailed(p, pre)}
                  ELSE parseFraction(ps.val, s, post)
             ELSE parseFraction(p, s, post)

\* stringify(b, oprec)
stringify(b, oprec) ==
    LET s == BigString(b)
        m == IF Len(s) <= eExp THEN <<"0">> ELSE SubSeq(s, 1, Len(s) - eExp)
        x == IF Len(s) <= eExp
             THEN LET lpad == eExp - Len(s)
                  IN  IF lpad > 0 THEN SubSeq(zeroes, 1, lpad) \o s ELSE s
             ELSE SubSeq(s, Len(s) - eExp + 1, Len(s))
        y == IF Len(x) > oprec THEN SubSeq(x, 1, oprec) ELSE x
    IN  m \o <<".">> \o y

\* Currency.String()
String(q) == stringify(q, eExp)

\* StringFixed that clamps only a precision above eExp
StringFixedUpperClampOnly(q, oprec) ==
    stringify(q, IF oprec > eExp THEN eExp ELSE oprec)

\* Currency.StringFixed(oprec)
StringFixed(q, oprec) ==
    stringify(q, IF oprec > eExp \/ oprec <= 0 THEN eExp ELSE oprec)

\* ------------------------------------------------------------------------
\* Inputs
\* ------------------------------------------------------------------------
\* zero padding tried in front of and behind each segment
MaxZeros == 1

\* fraction digits tried beyond the eExp-th
MaxExtraDigits == 2

\* precisions tried below 1 and above eExp
MaxPrecExcess == 2

\* mutating calls (UnmarshalJSON, in-place arithmetic) on one Currency
MaxOps == 1

Zeros(k) == [i \in 1..k |-> "0"]

\* n digits 1234567890123...: the 18th is 8, the 19th is 9
DigitRun(n) == [i \in 1..n |-> DigitChar(i % 10)]

Signs == {<<>>, <<"-">>, <<"+">>}

IntCores == {<<>>, <<"7">>, <<"1", "x">>, DigitRun(eExp + MaxExtraDigits)}

Pres == {Zeros(k) \o sg \o c : k \in 0..MaxZeros, sg \in Signs, c \in IntCores}

FewPres == {<<>>, <<"7">>, <<"-", "1">>}

FracLens == {0, 1} \cup ((eExp - 1)..(eExp + MaxExtraDigits))

FracCores ==
    {DigitRun(n) : n \in FracLens}
        \cup {<<"-", "5">>, <<"x">>, DigitRun(eExp) \o <<"x">>}

Posts == {Zeros(l) \o c \o Zeros(t) : l \in 0..MaxZeros, t \in 0..MaxZeros,
                                      c \in FracCores}

FewPosts == {<<"5">>, <<"5", "x">>}

Inputs ==
    Pres
        \cup {a \o <<".">> \o b : a \in Pres, b \in FewPosts}
        \cup {a \o <<".">> \o b : a \in FewPres, b \in Posts}
        \cup {a \o <<".">> \o b \o <<".">> \o b : a \in FewPres, b \in FewPosts}

Oprecs == (0 - MaxPrecExcess)..(eExp + MaxPrecExcess)

\* operands of the arithmetic: 0, 3 atto, -5 atto, 1.0, -1.5
Operands ==
    {BigZero,
     BigOf(FALSE, <<3>>),
     BigOf(TRUE, <<5>>),
     iBigMult,
     BigOf(TRUE, <<1, 5>> \o [i \in 1..(eExp - 1) |-> 0])}

\* ------------------------------------------------------------------------
\* State
\* ------------------------------------------------------------------------
VARIABLES
    p,      \* the units (big.Int) of the Currency under observation
    nops,   \* mutating calls made on it since it was constructed
    last    \* the last call: its name, arguments, and what it returned

vars == <<p, nops, last>>

NoCall ==
    [op |-> "none", s |-> <<>>, oprec |-> 0, x |-> BigZero, before |-> BigZero,
     out |-> <<>>, err |-> "", panic |-> FALSE, ret |-> BigZero,
     ret2 |-> BigZero, bool |-> FALSE, cmp |-> 0]

Call(op, before) == [NoCall EXCEPT !.op = op, !.before = before]

Init ==
    /\ p = BigZero
    /\ nops = 0
    /\ last = NoCall

\* No call is in progress: the caller has taken the last call's result.
Idle == last.op = "none"

\* The caller takes the result of the last call.
Return ==
    /\ ~Idle
    /\ last' = NoCall
    /\ UNCHANGED <<p, nops>>

\* New(): the Currency under observation is dropped for a fresh one
New ==
    /\ Idle
    /\ p' = BigZero
    /\ nops' = 0
    /\ last' = Call("New", BigZero)

\* NewFromString(s): a fresh Currency, or nil and an error
NewFromString(s) ==
    IF Len(s) > 0
    THEN {IF r.err # "" THEN [err |-> r.err, ok |-> FALSE, p |-> BigZero]
                        ELSE [err |-> "", ok |-> TRUE, p |-> r.p] :
              r \in parse(BigZero, s)}
    ELSE {[err |-> "", ok |-> TRUE, p |-> BigZero]}

\* NewFromString does not read the Currency under observation: it is taken
\* in place of New, from the state New leaves.  When it returns nil the
\* zero Currency stays under observation.
DoNewFromString ==
    /\ Idle
    /\ p = BigZero /\ nops = 0
    /\ \E s \in Inputs : \E r \in NewFromString(s) :
        /\ p' = r.p
        /\ nops' = 0
        /\ last' = [Call("NewFromString", BigZero) EXCEPT
                        !.s = s, !.err = r.err, !.ret = r.p, !.bool = r.ok]

\* p.UnmarshalJSON(txt)
UnmarshalJSON(q, txt) == parse(q, txt)

DoUnmarshalJSON ==
    /\ Idle
    /\ nops < MaxOps
    /\ \E s \in Inputs : \E r \in UnmarshalJSON(p, s) :
        /\ p' = r.p
        /\ nops' = nops + 1
        /\ last' = [Call("UnmarshalJSON", p) EXCEPT !.s = s, !.err = r.err]

\* p.MarshalJSON()
MarshalJSON(q) == String(q)

DoMarshalJSON ==
    /\ Idle
    /\ last' = [Call("MarshalJSON", p) EXCEPT !.out = MarshalJSON(p)]
    /\ UNCHANGED <<p, nops>>

DoString ==
    /\ Idle
    /\ last' = [Call("String", p) EXCEPT !.out = String(p)]
    /\ UNCHANGED <<p, nops>>

DoStringFixed ==
    \E oprec \in Oprecs :
        /\ Idle
        /\ last' = [Call("StringFixed", p) EXCEPT
                        !.oprec = oprec, !.out = StringFixed(p, oprec)]
        /\ UNCHANGED <<p, nops>>

\* ------------------------------------------------------------------------
\* Arithmetic: each call hands its operands to math/big.  A result is
\* [panic, z, r]: Quo and DivMod panic on a zero divisor and then return
\* nothing and store nothing.
\* ------------------------------------------------------------------------
Returned(z, r) == [panic |-> FALSE, z |-> z, r |-> r]

Panicked == [panic |-> TRUE, z |-> BigZero, r |-> BigZero]

\* func Add(a, b), func Sub(a, b), func Mul(a, b)
Add(a, b) == Returned(BigAdd(a, b), BigZero)

Sub(a, b) == Returned(BigSub(a, b), BigZero)

Mul(a, b) == Returned(BigMul(a, b), BigZero)

\* Div that answers zero for a zero divisor
DivZeroForZero(a, b) ==
    IF IsBigZero(b) THEN Returned(BigZero, BigZero)
    ELSE Returned(BigQuo(a, b), BigZero)

\* func Div(a, b)
Div(a, b) ==
    IF IsBigZero(b) THEN Panicked ELSE Returned(BigQuo(a, b), BigZero)

\* func DivMod(a, b)
PairReturned(zr) == Returned(zr[1], zr[2])

DivMod(a, b) ==
    IF IsBigZero(b) THEN Panicked ELSE PairReturned(BigDivMod(a, b))

\* func Inv(a)
Inv(a) ==
    IF IsBigZero(a) THEN Panicked ELSE Returned(BigQuo(iBigMult, a), BigZero)

\* func (p *Currency) Add(x), Sub(x), Mul(x): p is set to the result
CurrencyAdd(q, x) == Returned(BigAdd(q, x), BigZero)

CurrencySub(q, x) == Returned(BigSub(q, x), BigZero)

CurrencyMul(q, x) == Returned(BigMul(q, x), BigZero)

\* func (p *Currency) Div(x)
CurrencyDiv(q, x) ==
    IF IsBigZero(x) THEN Panicked ELSE Returned(BigQuo(q, x), BigZero)

\* func (p *Currency) DivMod(x)
CurrencyDivMod(q, x) ==
    IF IsBigZero(x) THEN Panicked ELSE PairReturned(BigDivMod(q, x))

\* func (p *Currency) IsZero()
IsZero(q) == 0 = BigCmp(q, zero)

\* func (p *Currency) Eq(x) and func Eq(a, b)
CurrencyEq(q, x) == 0 = BigCmp(q, x)

Eq(a, b) == 0 = BigCmp(a, b)

\* func Cmp(a, b)
Cmp(a, b) == BigCmp(a, b)

\* a call of a method that stores its result in the receiver
InPlace(op, x, r) ==
    /\ Idle
    /\ nops < MaxOps
    /\ p' = IF r.panic THEN p ELSE r.z
    /\ nops' = IF r.panic THEN nops ELSE nops + 1
    /\ last' = [Call(op, p) EXCEPT !.x = x, !.panic = r.panic, !.ret = r.z,
                                   !.ret2 = r.r, !.bool = ~r.panic]

\* a call of a function that returns a new Currency
Free(op, x, r) ==
    /\ Idle
    /\ last' = [Call(op, p) EXCEPT !.x = x, !.panic = r.panic, !.ret = r.z,
                                   !.ret2 = r.r, !.bool = ~r.panic]
    /\ UNCHANGED <<p, nops>>

DoCurrencyAdd == \E x \in Operands : InPlace("Currency.Add", x, CurrencyAdd(p, x))

DoCurrencySub == \E x \in Operands : InPlace("Currency.Sub", x, CurrencySub(p, x))

DoCurrencyMul == \E x \in Operands : InPlace("Currency.Mul", x, CurrencyMul(p, x))

DoCurrencyDiv == \E x \in Operands : InPlace("Currency.Div", x, CurrencyDiv(p, x))

DoCurrencyDivMod ==
    \E x \in Operands : InPlace("Currency.DivMod", x, CurrencyDivMod(p, x))

DoAdd == \E b \in Operands : Free("Add", b, Add(p, b))

DoSub == \E b \in Operands : Free("Sub", b, Sub(p, b))

DoMul == \E b \in Operands : Free("Mul", b, Mul(p, b))

DoDiv == \E b \in Operands : Free("Div", b, Div(p, b))

DoDivMod == \E b \in Operands : Free("DivMod", b, DivMod(p, b))

\* Inv(a) on the Currency under observation
DoInv == Free("Inv", p, Inv(p))

DoIsZero ==
    /\ Idle
    /\ last' = [Call("IsZero", p) EXCEPT !.bool = IsZero(p)]
    /\ UNCHANGED <<p, nops>>

DoCurrencyEq ==
    \E x \in Operands :
        /\ Idle
        /\ last' = [Call("Currency.Eq", p) EXCEPT !.x = x, !.bool = CurrencyEq(p, x)]
        /\ UNCHANGED <<p, nops>>

DoEq ==
    \E b \in Operands :
        /\ Idle
        /\ last' = [Call("Eq", p) EXCEPT !.x = b, !.bool = Eq(p, b)]
        /\ UNCHANGED <<p, nops>>

DoCmp ==
    \E b \in Operands :
        /\ Idle
        /\ last' = [Call("Cmp", p) EXCEPT !.x = b, !.cmp = Cmp(p, b)]
        /\ UNCHANGED <<p, nops>>

Next ==
    \/ Return
    \/ New
    \/ DoNewFromString
    \/ DoUnmarshalJSON
    \/ DoMarshalJSON
    \/ DoString
    \/ DoStringFixed
    \/ DoCurrencyAdd
    \/ DoCurrencySub
    \/ DoCurrencyMul
    \/ DoCurrencyDiv
    \/ DoCurrencyDivMod
    \/ DoAdd
    \/ DoSub
    \/ DoMul
    \/ DoDiv
    \/ DoDivMod
    \/ DoInv
    \/ DoIsZero
    \/ DoCurrencyEq
    \/ DoEq
    \/ DoCmp

Spec == Init /\ [][Next]_vars

\* ------------------------------------------------------------------------
\* Reading decimal text, independently of parse
\* ------------------------------------------------------------------------
Dots(s) == {i \in 1..Len(s) : s[i] = "."}

FirstDot(s) == CHOOSE i \in Dots(s) : \A j \in Dots(s) : i <= j

\* the text before the first '.', or all of it when there is none
IntSeg(s) == IF Dots(s) = {} THEN s ELSE SubSeq(s, 1, FirstDot(s) - 1)

\* the text after the first '.'
FracSeg(s) == IF Dots(s) = {} THEN <<>> ELSE SubSeq(s, FirstDot(s) + 1, Len(s))

Take(s, n) == IF Len(s) > n THEN SubSeq(s, 1, n) ELSE s

DropLast(s, k) == SubSeq(s, 1, Len(s) - k)

Signed(s) == s # <<>> /\ s[1] \in {"+", "-"}

Unsign(s) == IF Signed(s) THEN Tail(s) ELSE s

\* a signed integer literal: an optional sign first, then digits only
IsIntLiteral(s) == Unsign(s) # <<>> /\ AllDigits(Unsign(s))

\* digits, optionally followed by '.' and digits
IsUnsignedDecimal(s) ==
    /\ Cardinality(Dots(s)) <= 1
    /\ AllDigits(IntSeg(s))
    /\ AllDigits(FracSeg(s))

\* an optional sign, integer digits, at most one '.', at most eExp
\* fraction digits
IsDecimal(s) ==
    /\ Cardinality(Dots(s)) <= 1
    /\ IsIntLiteral(IntSeg(s))
    /\ AllDigits(FracSeg(s))
    /\ Len(FracSeg(s)) <= eExp

\* the atto units written by integer digits int and fraction digits frac:
\* the digits of int followed by the first eExp digits of frac, padded on
\* the right with zeros to eExp digits
UnitsOf(neg, int, frac) ==
    LET f == Take(frac, eExp)
        d == int \o f \o Zeros(eExp - Len(f))
    IN  BigOf(neg, [i \in 1..Len(d) |-> DigitVal(d[i])])

\* the numeric value, in atto units, of the decimal text s
DecimalValue(s) ==
    UnitsOf(Signed(s) /\ s[1] = "-", Unsign(IntSeg(s)), FracSeg(s))

\* s cut after its eExp-th fraction digit
CutFraction(s) ==
    IF Dots(s) = {} THEN s ELSE IntSeg(s) \o <<".">> \o Take(FracSeg(s), eExp)

\* the precision StringFixed(oprec) renders at
Clamped(oprec) == IF 1 <= oprec /\ oprec <= eExp THEN oprec ELSE eExp

DivisionCalls == {"Currency.Div", "Currency.DivMod", "Div", "DivMod", "Inv"}

RenderCalls == {"String", "StringFixed", "MarshalJSON"}

\* ------------------------------------------------------------------------
\* Claims
\* ------------------------------------------------------------------------

\* C1: round trip.  For every well-formed decimal string s (optional sign,
\* integer digits, at most one '.', at most 18 fraction digits)
\* NewFromString(s) succeeds and String() of the result is decimal text
\* with exactly the numeric value of s.
C1_RoundTrip ==
    (last.op = "NewFromString" /\ IsDecimal(last.s))
        => /\ last.err = ""
           /\ last.bool
           /\ IsDecimal(String(last.ret))
           /\ DecimalValue(String(last.ret)) = DecimalValue(last.s)

\* C2: for unsigned digits optionally followed by '.' and fraction digits,
\* NewFromString yields units = I * 10^18 + F, F read from the first 18
\* fraction digits padded on the right to 18; later digits are dropped
\* without rounding, so the input cut after its 18th fraction digit parses
\* to the same value.
C2_UnsignedUnits ==
    (last.op = "NewFromString" /\ IsUnsignedDecimal(last.s))
        => /\ last.err = ""
           /\ last.bool
           /\ last.ret = UnitsOf(FALSE, IntSeg(last.s), FracSeg(last.s))
           /\ \A r \in NewFromString(CutFraction(last.s)) :
                  r.ok /\ r.p = last.ret

\* a fraction longer than 18 digits whose 19th digit would round up
C2_Witness ==
    /\ last.op = "NewFromString"
    /\ IsUnsignedDecimal(last.s)
    /\ IntSeg(last.s) # <<>>
    /\ Len(FracSeg(last.s)) > eExp
    /\ DigitVal(FracSeg(last.s)[eExp + 1]) >= 5
    /\ last.bool
    /\ last.ret = UnitsOf(FALSE, IntSeg(last.s), FracSeg(last.s))

\* C3: StringFixed(p) is String() without its last 18 - q characters, q = p
\* for 1 <= p <= 18 and q = 18 otherwise: out-of-range precisions render as
\* precision 18, in-range ones keep the first p fraction digits unchanged.
C3_FixedIsPrefix ==
    last.op = "StringFixed"
        => last.out = DropLast(String(last.before), eExp - Clamped(last.oprec))

\* a precision inside the range that cuts digits off, the first digit cut
\* being one that rounding would carry from
C3_Witness ==
    /\ last.op = "StringFixed"
    /\ last.oprec >= 1 /\ last.oprec < eExp
    /\ Len(last.out) + eExp - last.oprec = Len(String(last.before))
    /\ String(last.before)[Len(last.out) + 1] \in {"5", "6", "7", "8", "9"}

\* C4: serialization round trip.  For every Currency v, UnmarshalJSON of
\* the bytes of v.MarshalJSON() into a fresh zero Currency returns no error
\* and leaves a value Eq to v.
C4_JSONRoundTrip ==
    last.op = "MarshalJSON"
        => \A r \in UnmarshalJSON(BigZero, last.out) :
               r.err = "" /\ Eq(r.p, last.before)

\* C5: division by zero is always surfaced.  Currency.Div, Currency.DivMod,
\* Div, DivMod and Inv with a divisor of zero units panic; they return no
\* result and store none.
C5_DivisionByZero ==
    (last.op \in DivisionCalls /\ IsBigZero(last.x))
        => last.panic /\ ~last.bool /\ p = last.before

\* an in-place division of a non-zero Currency by zero
C5_Witness ==
    /\ last.op = "Currency.DivMod"
    /\ IsBigZero(last.x)
    /\ ~IsBigZero(last.before)
    /\ last.panic

\* C6: NewFromString returns an error for every input whose whole-unit
\* segment is non-empty and is not a signed integer literal.
C6_InvalidDecimal ==
    (/\ last.op = "NewFromString"
     /\ IntSeg(last.s) # <<>>
     /\ ~IsIntLiteral(IntSeg(last.s)))
        => last.err # "" /\ ~last.bool

\* C7: the fraction is an unsigned magnitude.  NewFromString returns an
\* error when the fraction segment, within its first 18 characters after
\* trailing zeros are stripped, holds anything but digits; in a successful
\* parse the fraction adds f, 0 <= f < 10^18, to integerPart * 10^18.
C7_UnsignedFraction ==
    (last.op = "NewFromString" /\ Cardinality(Dots(last.s)) = 1)
        => /\ ~AllDigits(Take(zstripPost(FracSeg(last.s)), eExp))
                => last.err # "" /\ ~last.bool
           /\ (last.err = "" /\ IsIntLiteral(IntSeg(last.s)))
                => LET i == BigSetString(IntSeg(last.s)).val
                       f == BigSub(last.ret, BigMul(i, iBigMult))
                   IN  ~f.neg /\ BigCmp(f, iBigMult) < 0

\* C8: deserialization overwrites the value.  After UnmarshalJSON(b)
\* returns no error the receiver is Eq to what NewFromString(string(b))
\* returns, whatever it held before.
C8_UnmarshalOverwrites ==
    (last.op = "UnmarshalJSON" /\ last.err = "")
        => \E r \in NewFromString(last.s) : r.ok /\ Eq(p, r.p)

\* C9: for every negative units value and every precision, the text of
\* String()/StringFixed carries the '-' only in the whole-unit part before
\* the '.', and the part after the '.' is digits only.
C9_SignInWholePart ==
    (last.op \in RenderCalls /\ last.before.neg /\ ~IsBigZero(last.before))
        => /\ Cardinality(Dots(last.out)) = 1
           /\ IntSeg(last.out)[1] = "-"
           /\ AllDigits(FracSeg(last.out))

\* C10: no partial parse state on failure.  Whenever UnmarshalJSON returns
\* an error the receiver holds the value it held before the call.
C10_FailureKeepsReceiver ==
    (last.op = "UnmarshalJSON" /\ last.err # "")
        => p = last.before

====
